---- MODULE Spec2Model ----
(***************************************************************************)
(* CD4067 16-channel analog multiplexer driver                             *)
(* (Firmware/App/sensors/sensor_array.c).                                  *)
(*                                                                         *)
(* The driver owns a handle (config copy, current_channel, is_enabled,     *)
(* settling_time_us) and drives five GPIO lines (S0..S3, EN active-low)    *)
(* plus one ADC.  Every public function is one action taken while no call  *)
(* is in progress; MUX_ReadChannel is split at its HAL_ADC_* calls so that *)
(* the blocking poll and the order of the ADC cycle are visible.           *)
(*                                                                         *)
(* Variables trace, pre, call, lastSel and inited are history variables:   *)
(* they record what the current (or last) call did and never influence     *)
(* the driver.                                                             *)
(***************************************************************************)
EXTENDS Integers, Sequences, FiniteSets, TLC

\* ---------------------------------------------------------------- bounds
MaxChannelArg == 16     \* channel arguments tried: 0..MaxChannelArg and 255
MaxCount      == 17     \* num_channels arguments tried: 0..MaxCount and 255
MaxSettle     == 0      \* settling times tried: 0..MaxSettle, 10 and 65535
NumScenes     == 2      \* distinct sets of analog input voltages

\* ------------------------------------------------------ program constants
MUX_CHANNELS        == 16
MUX_ACTIVE_CHANNELS == 14
GPIO_PIN_RESET      == 0
GPIO_PIN_SET        == 1
DefaultSettlingTime == 10
SystemCoreClock     == 72000000

ChannelArgs == (0..MaxChannelArg) \cup {255}
CountArgs   == (0..MaxCount) \cup {255}
SettleTimes == (0..MaxSettle) \cup {DefaultSettlingTime, 65535}
Scenes      == 1..NumScenes
Unwritten   == -1

\* MUX_Config_t: two wirings of the same five GPIO pins (pin ids 1..5).
PinIds == 1..5
CfgA == [s0 |-> 1, s1 |-> 2, s2 |-> 3, s3 |-> 4, en |-> 5, hadc |-> 1, adc_channel |-> 0]
CfgB == [s0 |-> 5, s1 |-> 4, s2 |-> 3, s3 |-> 2, en |-> 1, hadc |-> 1, adc_channel |-> 1]
ConfigIds == {1, 2}
Cfg(id) == IF id = 1 THEN CfgA ELSE CfgB
Configs == {Cfg(id) : id \in ConfigIds}

\* MUX_Handle_t
MUX_Handle_t(config, ch, en, st) ==
    [config |-> config, current_channel |-> ch, is_enabled |-> en, settling_time_us |-> st]

VARIABLES
    hmux,      \* the MUX_Handle_t
    pins,      \* output level of every GPIO pin
    adc,       \* the ADC peripheral: running, end-of-conversion flag, data register
    scene,     \* which set of analog voltages is on the 16 multiplexer inputs
    pc,        \* position of the call in progress ("idle": none)
    loc,       \* locals of the call in progress: inAll, i, channel, value
    data,      \* the buffer handed to MUX_ReadAllChannels (Unwritten where untouched)
    call,      \* the current or last call: op, arg, null-ness of pointers, results
    pre,       \* handle and pins when that call was entered
    trace,     \* hardware operations performed by that call, in order
    lastSel,   \* last in-range channel passed to MUX_SelectChannel since MUX_Init
    inited     \* a MUX_Init has succeeded

vars == <<hmux, pins, adc, scene, pc, loc, data, call, pre, trace, lastSel, inited>>

\* ------------------------------------------------------------- hardware
\* The driver-visible machine: handle, pins and the log of hardware operations.
\* status is the HAL_StatusTypeDef a function returns ("none" for void ones).
Machine(h, p, t) == [h |-> h, pins |-> p, trace |-> t, status |-> "none"]

HAL_GPIO_WritePin(m, pin, level) ==
    [m EXCEPT !.pins[pin] = level, !.trace = Append(@, <<"write", pin, level>>)]

\* Channel number the four select lines of a config encode.
DecodeSel(p, cfg) == p[cfg.s0] + 2 * p[cfg.s1] + 4 * p[cfg.s2] + 8 * p[cfg.s3]

\* Voltage of input ch in a scene, as a 12-bit reading; distinct per channel.
Sensor(s, ch) == (s * 1000 + ch * 273) % 4096

\* What the ADC can convert: the selected input when EN is low, a floating
\* node otherwise.
AnalogInput(s, p, cfg) ==
    IF p[cfg.en] = GPIO_PIN_RESET THEN {Sensor(s, DecodeSel(p, cfg))} ELSE {0, 4095}

\* ------------------------------------------------------------ the driver
Bit(channel, mask) == (channel \div mask) % 2

PinState(b) == IF b # 0 THEN GPIO_PIN_SET ELSE GPIO_PIN_RESET

\* while(cycles--) __NOP(): one __NOP per value of cycles above zero.
NopCount(cycles) == cycles

\* Variant: the division by the loop cost is applied to us before the product.
delay_us_DivideFirst(m, us) ==
    LET cycles == (SystemCoreClock \div 1000000) * (us \div 3)
    IN  [m EXCEPT !.trace = Append(@, <<"delay", us, NopCount(cycles)>>)]

\* uint32_t cycles = (SystemCoreClock / 1000000) * us / 3.  The product cannot
\* wrap: SystemCoreClock / 1000000 <= 4294 for any uint32_t clock and
\* us <= 65535, so it stays below 2^29 and the 32-bit reduction is the identity.
delay_us(m, us) ==
    LET cycles == ((SystemCoreClock \div 1000000) * us) \div 3
    IN  [m EXCEPT !.trace = Append(@, <<"delay", us, NopCount(cycles)>>)]

\* Variant: the call is rejected only when both arguments are absent.
MUX_Init_RejectBothOnly(m, hmuxNull, configNull, config) ==
    IF hmuxNull /\ configNull THEN [m EXCEPT !.status = "HAL_ERROR"] ELSE
    LET m0 == [m EXCEPT !.h = MUX_Handle_t(config, 0, FALSE, DefaultSettlingTime)]
        m1 == HAL_GPIO_WritePin(m0, m0.h.config.s0, GPIO_PIN_RESET)
        m2 == HAL_GPIO_WritePin(m1, m1.h.config.s1, GPIO_PIN_RESET)
        m3 == HAL_GPIO_WritePin(m2, m2.h.config.s2, GPIO_PIN_RESET)
        m4 == HAL_GPIO_WritePin(m3, m3.h.config.s3, GPIO_PIN_RESET)
        m5 == HAL_GPIO_WritePin(m4, m4.h.config.en, GPIO_PIN_SET)
    IN  [m5 EXCEPT !.status = "HAL_OK"]

\* Variant: the settling time of the previous use survives a re-initialisation.
MUX_Init_KeepSettling(m, hmuxNull, configNull, config) ==
    IF hmuxNull \/ configNull THEN [m EXCEPT !.status = "HAL_ERROR"] ELSE
    LET m0 == [m EXCEPT !.h = MUX_Handle_t(config, 0, FALSE, m.h.settling_time_us)]
        m1 == HAL_GPIO_WritePin(m0, m0.h.config.s0, GPIO_PIN_RESET)
        m2 == HAL_GPIO_WritePin(m1, m1.h.config.s1, GPIO_PIN_RESET)
        m3 == HAL_GPIO_WritePin(m2, m2.h.config.s2, GPIO_PIN_RESET)
        m4 == HAL_GPIO_WritePin(m3, m3.h.config.s3, GPIO_PIN_RESET)
        m5 == HAL_GPIO_WritePin(m4, m4.h.config.en, GPIO_PIN_SET)
    IN  [m5 EXCEPT !.status = "HAL_OK"]

MUX_Init(m, hmuxNull, configNull, config) ==
    IF hmuxNull \/ configNull THEN [m EXCEPT !.status = "HAL_ERROR"] ELSE
    LET m0 == [m EXCEPT !.h = MUX_Handle_t(config, 0, FALSE, DefaultSettlingTime)]
        m1 == HAL_GPIO_WritePin(m0, m0.h.config.s0, GPIO_PIN_RESET)
        m2 == HAL_GPIO_WritePin(m1, m1.h.config.s1, GPIO_PIN_RESET)
        m3 == HAL_GPIO_WritePin(m2, m2.h.config.s2, GPIO_PIN_RESET)
        m4 == HAL_GPIO_WritePin(m3, m3.h.config.s3, GPIO_PIN_RESET)
        m5 == HAL_GPIO_WritePin(m4, m4.h.config.en, GPIO_PIN_SET)
    IN  [m5 EXCEPT !.status = "HAL_OK"]

MUX_SetSettlingTime(m, time_us) == [m EXCEPT !.h.settling_time_us = time_us]

\* Variant: the call toggles the multiplexer instead of enabling it.
MUX_Enable_Toggle(m) ==
    IF m.h.is_enabled
    THEN LET m1 == HAL_GPIO_WritePin(m, m.h.config.en, GPIO_PIN_SET)
         IN  [m1 EXCEPT !.h.is_enabled = FALSE]
    ELSE LET m1 == HAL_GPIO_WritePin(m, m.h.config.en, GPIO_PIN_RESET)
         IN  [m1 EXCEPT !.h.is_enabled = TRUE]

MUX_Enable(m) ==
    LET m1 == HAL_GPIO_WritePin(m, m.h.config.en, GPIO_PIN_RESET)
    IN  [m1 EXCEPT !.h.is_enabled = TRUE]

\* Variant: the line is driven but the flag is left alone.
MUX_Disable_NoFlag(m) == HAL_GPIO_WritePin(m, m.h.config.en, GPIO_PIN_SET)

MUX_Disable(m) ==
    LET m1 == HAL_GPIO_WritePin(m, m.h.config.en, GPIO_PIN_SET)
    IN  [m1 EXCEPT !.h.is_enabled = FALSE]

\* Variant: S1 is driven from bit 2 instead of bit 1.
MUX_SelectChannel_WrongMask(m, channel) ==
    IF channel >= MUX_CHANNELS
    THEN m
    ELSE LET m1 == HAL_GPIO_WritePin(m,  m.h.config.s0,  PinState(Bit(channel, 1)))
             m2 == HAL_GPIO_WritePin(m1, m1.h.config.s1, PinState(Bit(channel, 4)))
             m3 == HAL_GPIO_WritePin(m2, m2.h.config.s2, PinState(Bit(channel, 4)))
             m4 == HAL_GPIO_WritePin(m3, m3.h.config.s3, PinState(Bit(channel, 8)))
             m5 == [m4 EXCEPT !.h.current_channel = channel]
         IN  delay_us(m5, m5.h.settling_time_us)

\* Variant: the bound check lets channel 16 through.
MUX_SelectChannel_GuardOffByOne(m, channel) ==
    IF channel > MUX_CHANNELS
    THEN m
    ELSE LET m1 == HAL_GPIO_WritePin(m,  m.h.config.s0,  PinState(Bit(channel, 1)))
             m2 == HAL_GPIO_WritePin(m1, m1.h.config.s1, PinState(Bit(channel, 2)))
             m3 == HAL_GPIO_WritePin(m2, m2.h.config.s2, PinState(Bit(channel, 4)))
             m4 == HAL_GPIO_WritePin(m3, m3.h.config.s3, PinState(Bit(channel, 8)))
             m5 == [m4 EXCEPT !.h.current_channel = channel]
         IN  delay_us(m5, m5.h.settling_time_us)

\* Variant: the lines are driven but current_channel is not updated.
MUX_SelectChannel_NoChannelUpdate(m, channel) ==
    IF channel >= MUX_CHANNELS
    THEN m
    ELSE LET m1 == HAL_GPIO_WritePin(m,  m.h.config.s0,  PinState(Bit(channel, 1)))
             m2 == HAL_GPIO_WritePin(m1, m1.h.config.s1, PinState(Bit(channel, 2)))
             m3 == HAL_GPIO_WritePin(m2, m2.h.config.s2, PinState(Bit(channel, 4)))
             m4 == HAL_GPIO_WritePin(m3, m3.h.config.s3, PinState(Bit(channel, 8)))
             m5 == m4
         IN  delay_us(m5, m5.h.settling_time_us)

\* Variant: no bound check, the low four bits of any channel are selected.
MUX_SelectChannel_Masked(m, channel) ==
    IF FALSE
    THEN m
    ELSE LET m1 == HAL_GPIO_WritePin(m,  m.h.config.s0,  PinState(Bit(channel, 1)))
             m2 == HAL_GPIO_WritePin(m1, m1.h.config.s1, PinState(Bit(channel, 2)))
             m3 == HAL_GPIO_WritePin(m2, m2.h.config.s2, PinState(Bit(channel, 4)))
             m4 == HAL_GPIO_WritePin(m3, m3.h.config.s3, PinState(Bit(channel, 8)))
             m5 == [m4 EXCEPT !.h.current_channel = channel % 16]
         IN  delay_us(m5, m5.h.settling_time_us)

\* Variant: the multiplexer is switched off while the select lines change and
\* is never switched on again.
MUX_SelectChannel_DisableWhileSwitching(m, channel) ==
    IF channel >= MUX_CHANNELS
    THEN m
    ELSE LET m0 == HAL_GPIO_WritePin(m, m.h.config.en, GPIO_PIN_SET)
             m1 == HAL_GPIO_WritePin(m0, m0.h.config.s0, PinState(Bit(channel, 1)))
             m2 == HAL_GPIO_WritePin(m1, m1.h.config.s1, PinState(Bit(channel, 2)))
             m3 == HAL_GPIO_WritePin(m2, m2.h.config.s2, PinState(Bit(channel, 4)))
             m4 == HAL_GPIO_WritePin(m3, m3.h.config.s3, PinState(Bit(channel, 8)))
             m5 == [m4 EXCEPT !.h.current_channel = channel, !.h.is_enabled = FALSE]
         IN  delay_us(m5, m5.h.settling_time_us)

\* Variant: nothing is done when the channel is the one already selected.
MUX_SelectChannel_SkipIfSame(m, channel) ==
    IF channel >= MUX_CHANNELS \/ channel = m.h.current_channel
    THEN m
    ELSE LET m1 == HAL_GPIO_WritePin(m,  m.h.config.s0,  PinState(Bit(channel, 1)))
             m2 == HAL_GPIO_WritePin(m1, m1.h.config.s1, PinState(Bit(channel, 2)))
             m3 == HAL_GPIO_WritePin(m2, m2.h.config.s2, PinState(Bit(channel, 4)))
             m4 == HAL_GPIO_WritePin(m3, m3.h.config.s3, PinState(Bit(channel, 8)))
             m5 == [m4 EXCEPT !.h.current_channel = channel]
         IN  delay_us(m5, m5.h.settling_time_us)

\* Variant: the settle delay runs before the select lines are driven.
MUX_SelectChannel_DelayFirst(m, channel) ==
    IF channel >= MUX_CHANNELS
    THEN m
    ELSE LET m0 == delay_us(m, m.h.settling_time_us)
             m1 == HAL_GPIO_WritePin(m0, m0.h.config.s0, PinState(Bit(channel, 1)))
             m2 == HAL_GPIO_WritePin(m1, m1.h.config.s1, PinState(Bit(channel, 2)))
             m3 == HAL_GPIO_WritePin(m2, m2.h.config.s2, PinState(Bit(channel, 4)))
             m4 == HAL_GPIO_WritePin(m3, m3.h.config.s3, PinState(Bit(channel, 8)))
         IN  [m4 EXCEPT !.h.current_channel = channel]

MUX_SelectChannel(m, channel) ==
    IF channel >= MUX_CHANNELS
    THEN m
    ELSE LET m1 == HAL_GPIO_WritePin(m,  m.h.config.s0,  PinState(Bit(channel, 1)))
             m2 == HAL_GPIO_WritePin(m1, m1.h.config.s1, PinState(Bit(channel, 2)))
             m3 == HAL_GPIO_WritePin(m2, m2.h.config.s2, PinState(Bit(channel, 4)))
             m4 == HAL_GPIO_WritePin(m3, m3.h.config.s3, PinState(Bit(channel, 8)))
             m5 == [m4 EXCEPT !.h.current_channel = channel]
         IN  delay_us(m5, m5.h.settling_time_us)

MUX_GetCurrentChannel(h) == h.current_channel

\* Variant: the channel is selected without enabling a disabled multiplexer.
ReadChannel_Select_NoEnable(m, channel) == MUX_SelectChannel(m, channel)

\* MUX_ReadChannel up to (not including) HAL_ADC_Start.
ReadChannel_Select(m, channel) ==
    LET m1 == IF ~m.h.is_enabled THEN MUX_Enable(m) ELSE m
    IN  MUX_SelectChannel(m1, channel)

\* Variant: the multiplexer is enabled before the arguments are checked.
ReadAllChannels_Enter_EnableFirst(m, dataNull, num_channels) ==
    LET m1 == IF ~m.h.is_enabled THEN MUX_Enable(m) ELSE m
    IN  IF dataNull \/ num_channels > MUX_CHANNELS
        THEN [m1 EXCEPT !.status = "HAL_ERROR"]
        ELSE m1

\* MUX_ReadAllChannels up to its loop: argument check, then enable.
ReadAllChannels_Enter(m, dataNull, num_channels) ==
    IF dataNull \/ num_channels > MUX_CHANNELS
    THEN [m EXCEPT !.status = "HAL_ERROR"]
    ELSE IF ~m.h.is_enabled THEN MUX_Enable(m) ELSE m

\* Variant: the loop runs one channel too far.
ReadAllChannels_More_Inclusive(i, num_channels) == i <= num_channels

\* The loop test of MUX_ReadAllChannels (i is a uint8_t).
ReadAllChannels_More(i, num_channels) == i < num_channels

\* ADC backend: start clears the flag, the conversion latches the input into
\* the data register, reading the register clears the flag, stop resets.
HAL_ADC_Start(a) == [a EXCEPT !.running = TRUE, !.eoc = FALSE]
\* Variant: the poll gives up and returns whether or not the flag is set.
HAL_ADC_PollForConversion_Timeout(a) == TRUE

HAL_ADC_PollForConversion(a) == a.eoc
HAL_ADC_GetValue(a) == a.dr
HAL_ADC_Stop(a) == [running |-> FALSE, eoc |-> FALSE, dr |-> 0]

\* ------------------------------------------------------------ the state
EmptyBuf == [k \in 0..MUX_CHANNELS |-> Unwritten]
NoLocals == [inAll |-> FALSE, i |-> 0, channel |-> 0, value |-> 0]
Call(op, arg, hnull, pnull, status, value) ==
    [op |-> op, arg |-> arg, hmuxNull |-> hnull, ptrNull |-> pnull,
     status |-> status, value |-> value]
M0 == Machine(hmux, pins, <<>>)
Apply(m) == hmux' = m.h /\ pins' = m.pins /\ trace' = m.trace
Snapshot == pre' = [h |-> hmux, pins |-> pins]

\* Before MUX_Init the handle holds whatever its storage held.
Init ==
    /\ hmux \in {MUX_Handle_t(c, ch, en, st) :
                    c \in Configs, ch \in {0, 9, 200}, en \in BOOLEAN, st \in {0, 10}}
    /\ pins \in {[p \in PinIds |-> l] : l \in {GPIO_PIN_RESET, GPIO_PIN_SET}}
    /\ adc = [running |-> FALSE, eoc |-> FALSE, dr |-> 0]
    /\ scene = 1
    /\ pc = "idle"
    /\ loc = NoLocals
    /\ data = EmptyBuf
    /\ call = Call("none", 0, FALSE, FALSE, "none", 0)
    /\ pre = [h |-> hmux, pins |-> pins]
    /\ trace = <<>>
    /\ lastSel = 0
    /\ inited = FALSE

\* ------------------------------------------------------------- the calls
MUX_Init_Call(hmuxNull, configNull, id) ==
    LET m == MUX_Init(M0, hmuxNull, configNull, Cfg(id)) IN
    /\ pc = "idle"
    /\ Apply(m) /\ Snapshot
    /\ call' = Call("Init", id, hmuxNull, configNull, m.status, 0)
    /\ inited' = (inited \/ m.status = "HAL_OK")
    /\ lastSel' = IF m.status = "HAL_OK" THEN 0 ELSE lastSel
    /\ loc' = NoLocals /\ data' = EmptyBuf
    /\ UNCHANGED <<adc, scene, pc>>

MUX_SetSettlingTime_Call(time_us) ==
    /\ pc = "idle" /\ inited
    /\ Apply(MUX_SetSettlingTime(M0, time_us)) /\ Snapshot
    /\ call' = Call("SetSettlingTime", time_us, FALSE, FALSE, "none", 0)
    /\ loc' = NoLocals /\ data' = EmptyBuf
    /\ UNCHANGED <<adc, scene, pc, lastSel, inited>>

MUX_Enable_Call ==
    /\ pc = "idle" /\ inited
    /\ Apply(MUX_Enable(M0)) /\ Snapshot
    /\ call' = Call("Enable", 0, FALSE, FALSE, "none", 0)
    /\ loc' = NoLocals /\ data' = EmptyBuf
    /\ UNCHANGED <<adc, scene, pc, lastSel, inited>>

MUX_Disable_Call ==
    /\ pc = "idle" /\ inited
    /\ Apply(MUX_Disable(M0)) /\ Snapshot
    /\ call' = Call("Disable", 0, FALSE, FALSE, "none", 0)
    /\ loc' = NoLocals /\ data' = EmptyBuf
    /\ UNCHANGED <<adc, scene, pc, lastSel, inited>>

\* History: the last in-range channel handed to MUX_SelectChannel.
Selected(old, channel) == IF channel \in 0..15 THEN channel ELSE old

MUX_SelectChannel_Call(channel) ==
    /\ pc = "idle" /\ inited
    /\ Apply(MUX_SelectChannel(M0, channel)) /\ Snapshot
    /\ call' = Call("SelectChannel", channel, FALSE, FALSE, "none", 0)
    /\ lastSel' = Selected(lastSel, channel)
    /\ loc' = NoLocals /\ data' = EmptyBuf
    /\ UNCHANGED <<adc, scene, pc, inited>>

MUX_GetCurrentChannel_Call ==
    /\ pc = "idle" /\ inited
    /\ Apply(M0) /\ Snapshot
    /\ call' = Call("GetCurrentChannel", 0, FALSE, FALSE, "none", MUX_GetCurrentChannel(hmux))
    /\ loc' = NoLocals /\ data' = EmptyBuf
    /\ UNCHANGED <<adc, scene, pc, lastSel, inited>>

\* MUX_ReadChannel, lines 152-157; the analog inputs are whatever they are
\* when the call is made.
MUX_ReadChannel_Call(channel, s) ==
    /\ pc = "idle" /\ inited
    /\ Apply(ReadChannel_Select(M0, channel)) /\ Snapshot
    /\ call' = Call("ReadChannel", channel, FALSE, FALSE, "none", 0)
    /\ lastSel' = Selected(lastSel, channel)
    /\ loc' = [inAll |-> FALSE, i |-> 0, channel |-> channel, value |-> 0]
    /\ data' = EmptyBuf
    /\ scene' = s
    /\ pc' = "adc_start"
    /\ UNCHANGED <<adc, inited>>

\* MUX_ReadAllChannels, lines 172-181 up to the first HAL_ADC_Start.
MUX_ReadAllChannels_Call(dataNull, num_channels, s) ==
    LET m1 == ReadAllChannels_Enter(M0, dataNull, num_channels)
        go == m1.status # "HAL_ERROR" /\ ReadAllChannels_More(0, num_channels)
        m2 == IF go THEN ReadChannel_Select(m1, 0) ELSE m1
    IN
    /\ pc = "idle" /\ inited
    /\ Apply(m2) /\ Snapshot
    /\ call' = Call("ReadAllChannels", num_channels, FALSE, dataNull,
                    IF m1.status = "HAL_ERROR" THEN "HAL_ERROR"
                    ELSE IF go THEN "none" ELSE "HAL_OK", 0)
    /\ lastSel' = IF go THEN Selected(lastSel, 0) ELSE lastSel
    /\ loc' = [inAll |-> go, i |-> 0, channel |-> 0, value |-> 0]
    /\ data' = EmptyBuf
    /\ scene' = s
    /\ pc' = IF go THEN "adc_start" ELSE "idle"
    /\ UNCHANGED <<adc, inited>>

\* --------------------------------------- MUX_ReadChannel, lines 160-165
ReadChannel_AdcStart ==
    /\ pc = "adc_start"
    /\ adc' = HAL_ADC_Start(adc)
    /\ trace' = Append(trace, <<"start", DecodeSel(pins, hmux.config), pins[hmux.config.en]>>)
    /\ pc' = "adc_poll"
    /\ UNCHANGED <<hmux, pins, scene, loc, data, call, pre, lastSel, inited>>

\* The ADC hardware finishes the conversion it was started on.
ADC_ConversionComplete ==
    /\ adc.running /\ ~adc.eoc
    /\ \E v \in AnalogInput(scene, pins, hmux.config) :
          adc' = [adc EXCEPT !.eoc = TRUE, !.dr = v]
    /\ UNCHANGED <<hmux, pins, scene, pc, loc, data, call, pre, trace, lastSel, inited>>

\* HAL_ADC_PollForConversion(hadc, HAL_MAX_DELAY) returns only once the flag is set.
ReadChannel_AdcPoll ==
    /\ pc = "adc_poll"
    /\ HAL_ADC_PollForConversion(adc)
    /\ trace' = Append(trace, <<"poll", 0, 0>>)
    /\ pc' = "adc_get"
    /\ UNCHANGED <<hmux, pins, adc, scene, loc, data, call, pre, lastSel, inited>>

\* Variant: the 12-bit reading is scaled down to 8 bits.
ReadChannel_AdcGetValue_Scaled ==
    /\ pc = "adc_get"
    /\ loc' = [loc EXCEPT !.value = (HAL_ADC_GetValue(adc) \div 16) % 65536]
    /\ adc' = [adc EXCEPT !.eoc = FALSE]
    /\ trace' = Append(trace, <<"get", (HAL_ADC_GetValue(adc) \div 16) % 65536, 0>>)
    /\ pc' = "adc_stop"
    /\ UNCHANGED <<hmux, pins, scene, data, call, pre, lastSel, inited>>

\* uint16_t value = HAL_ADC_GetValue(hadc)
ReadChannel_AdcGetValue ==
    /\ pc = "adc_get"
    /\ loc' = [loc EXCEPT !.value = HAL_ADC_GetValue(adc) % 65536]
    /\ adc' = [adc EXCEPT !.eoc = FALSE]
    /\ trace' = Append(trace, <<"get", HAL_ADC_GetValue(adc) % 65536, 0>>)
    /\ pc' = "adc_stop"
    /\ UNCHANGED <<hmux, pins, scene, data, call, pre, lastSel, inited>>

\* Variant: the value is returned without stopping the ADC.
ReadChannel_AdcStop_Return_NoStop ==
    /\ pc = "adc_stop" /\ ~loc.inAll
    /\ call' = [call EXCEPT !.value = loc.value]
    /\ pc' = "idle"
    /\ UNCHANGED <<hmux, pins, adc, scene, loc, data, pre, trace, lastSel, inited>>

\* HAL_ADC_Stop and the return of a MUX_ReadChannel called by the application.
ReadChannel_AdcStop_Return ==
    /\ pc = "adc_stop" /\ ~loc.inAll
    /\ adc' = HAL_ADC_Stop(adc)
    /\ trace' = Append(trace, <<"stop", 0, 0>>)
    /\ call' = [call EXCEPT !.value = loc.value]
    /\ pc' = "idle"
    /\ UNCHANGED <<hmux, pins, scene, loc, data, pre, lastSel, inited>>

\* HAL_ADC_Stop and the return into the loop of MUX_ReadAllChannels:
\* data[i] = value, i++, then either the next MUX_ReadChannel(hmux, i) up to
\* its HAL_ADC_Start, or return HAL_OK.
ReadChannel_AdcStop_Loop ==
    LET i1 == (loc.i + 1) % 256
        go == ReadAllChannels_More(i1, call.arg)
        m0 == Machine(hmux, pins, Append(trace, <<"stop", 0, 0>>))
        m1 == IF go THEN ReadChannel_Select(m0, i1) ELSE m0
    IN
    /\ pc = "adc_stop" /\ loc.inAll
    /\ adc' = HAL_ADC_Stop(adc)
    /\ data' = [data EXCEPT ![loc.i] = loc.value]
    /\ Apply(m1)
    /\ loc' = [loc EXCEPT !.i = i1, !.channel = IF go THEN i1 ELSE @]
    /\ lastSel' = IF go THEN Selected(lastSel, i1) ELSE lastSel
    /\ call' = IF go THEN call ELSE [call EXCEPT !.status = "HAL_OK"]
    /\ pc' = IF go THEN "adc_start" ELSE "idle"
    /\ UNCHANGED <<scene, pre, inited>>

Next ==
    \/ \E hn \in BOOLEAN, cn \in BOOLEAN, id \in ConfigIds : MUX_Init_Call(hn, cn, id)
    \/ \E t \in SettleTimes : MUX_SetSettlingTime_Call(t)
    \/ MUX_Enable_Call
    \/ MUX_Disable_Call
    \/ \E ch \in ChannelArgs : MUX_SelectChannel_Call(ch)
    \/ MUX_GetCurrentChannel_Call
    \/ \E ch \in ChannelArgs, s \in Scenes : MUX_ReadChannel_Call(ch, s)
    \/ \E dn \in BOOLEAN, n \in CountArgs, s \in Scenes : MUX_ReadAllChannels_Call(dn, n, s)
    \/ ReadChannel_AdcStart
    \/ ADC_ConversionComplete
    \/ ReadChannel_AdcPoll
    \/ ReadChannel_AdcGetValue
    \/ ReadChannel_AdcStop_Return
    \/ ReadChannel_AdcStop_Loop

Spec == Init /\ [][Next]_vars

\* ------------------------------------------------------------ properties
Returned(op) == pc = "idle" /\ call.op = op
SelLevels(p, cfg) == <<p[cfg.s0], p[cfg.s1], p[cfg.s2], p[cfg.s3]>>
EnLevel(p, cfg) == p[cfg.en]
IsStart(e) == e[1] = "start"
IsGet(e) == e[1] = "get"
IsDelay(e) == e[1] = "delay"
IsWrite(e) == e[1] = "write"
Starts == SelectSeq(trace, IsStart)
Gets == SelectSeq(trace, IsGet)
Delays == SelectSeq(trace, IsDelay)
Writes == SelectSeq(trace, IsWrite)

\* C1: after MUX_SelectChannel(h, c) with c in 0..15 the select lines are the
\* binary decomposition of c (S0 + 2*S1 + 4*S2 + 8*S3 = c, each line 0 or 1)
\* and MUX_GetCurrentChannel(h) returns c.
C1_SelectEncodesChannel ==
    (Returned("SelectChannel") /\ call.arg \in 0..15) =>
        /\ \A k \in 1..4 : SelLevels(pins, hmux.config)[k] \in {GPIO_PIN_RESET, GPIO_PIN_SET}
        /\ DecodeSel(pins, hmux.config) = call.arg
        /\ MUX_GetCurrentChannel(hmux) = call.arg

C1_Witness ==
    /\ Returned("SelectChannel") /\ call.arg = 10
    /\ pre.h.current_channel = 5
    /\ SelLevels(pins, hmux.config) = <<0, 1, 0, 1>>

\* C2: MUX_SelectChannel(h, c) with c >= 16 changes no handle field and no
\* line, writes no pin and performs no settle delay.
C2_OutOfRangeSelectIsNoOp ==
    (Returned("SelectChannel") /\ call.arg >= 16) =>
        /\ hmux = pre.h
        /\ pins = pre.pins
        /\ trace = <<>>

C2_Witness ==
    /\ Returned("SelectChannel") /\ call.arg = 16
    /\ hmux.current_channel = 9 /\ hmux.is_enabled /\ hmux.settling_time_us = 0

\* C3: at every call boundary after a successful MUX_Init, is_enabled is true
\* exactly when the enable line is low (active) and false exactly when it is
\* high (inactive).
C3_EnabledMirrorsLine ==
    (inited /\ pc = "idle") =>
        /\ hmux.is_enabled <=> EnLevel(pins, hmux.config) = GPIO_PIN_RESET
        /\ ~hmux.is_enabled <=> EnLevel(pins, hmux.config) = GPIO_PIN_SET

C3_Witness ==
    /\ Returned("Disable") /\ pre.h.is_enabled
    /\ ~hmux.is_enabled /\ EnLevel(pre.pins, hmux.config) = GPIO_PIN_RESET

\* C4: at every call boundary after a successful MUX_Init, current_channel is
\* in 0..15, is the last in-range channel passed to channel-select since the
\* last MUX_Init (0 if none) and is what the select lines encode.
C4_CurrentChannelInvariant ==
    (inited /\ pc = "idle") =>
        /\ hmux.current_channel \in 0..15
        /\ hmux.current_channel = lastSel
        /\ DecodeSel(pins, hmux.config) = hmux.current_channel

C4_Witness ==
    /\ Returned("SelectChannel") /\ call.arg = 255
    /\ lastSel = 7 /\ hmux.current_channel = 7

\* C5: MUX_Init with both arguments present returns HAL_OK and leaves
\* current_channel = 0, is_enabled = false, settling_time_us = 10, the stored
\* config equal to the supplied one, S0..S3 low and EN high, whatever the
\* handle held before.
C5_InitResets ==
    (Returned("Init") /\ ~call.hmuxNull /\ ~call.ptrNull) =>
        /\ call.status = "HAL_OK"
        /\ hmux.current_channel = 0
        /\ hmux.is_enabled = FALSE
        /\ hmux.settling_time_us = 10
        /\ hmux.config = Cfg(call.arg)
        /\ SelLevels(pins, Cfg(call.arg)) = <<0, 0, 0, 0>>
        /\ EnLevel(pins, Cfg(call.arg)) = GPIO_PIN_SET

C5_Witness ==
    /\ Returned("Init") /\ call.status = "HAL_OK"
    /\ inited /\ pre.h.is_enabled /\ pre.h.current_channel = 13
    /\ pre.h.settling_time_us = 65535 /\ pre.h.config # hmux.config

\* The last five hardware operations were: S0..S3 driven to the levels they
\* now have, then a settle delay of settling_time_us.
SettledAfterSelect ==
    LET n == Len(trace)
        cfg == hmux.config
    IN  /\ n >= 5
        /\ trace[n - 4] = <<"write", cfg.s0, pins[cfg.s0]>>
        /\ trace[n - 3] = <<"write", cfg.s1, pins[cfg.s1]>>
        /\ trace[n - 2] = <<"write", cfg.s2, pins[cfg.s2]>>
        /\ trace[n - 1] = <<"write", cfg.s3, pins[cfg.s3]>>
        /\ IsDelay(trace[n]) /\ trace[n][2] = hmux.settling_time_us

\* C6 as stated: whenever MUX_ReadChannel is about to start the conversion,
\* for every value of its channel argument, the select lines encode that
\* argument and the settle delay has run after they were driven.
C6_AsStated ==
    pc = "adc_start" =>
        /\ DecodeSel(pins, hmux.config) = loc.channel
        /\ SettledAfterSelect

\* C6 amended: for a channel argument in 0..15, when the conversion is about
\* to start the select lines encode the argument and the last operations
\* were the four select-line writes followed by a settle delay of
\* settling_time_us; for an argument >= 16 the select lines still encode the
\* previously selected channel and no settle delay has been performed.
C6_SelectAndSettleBeforeStart ==
    pc = "adc_start" =>
        IF loc.channel \in 0..15
        THEN /\ DecodeSel(pins, hmux.config) = loc.channel
             /\ SettledAfterSelect
        ELSE /\ DecodeSel(pins, hmux.config) = pre.h.current_channel
             /\ SelLevels(pins, hmux.config) = SelLevels(pre.pins, hmux.config)
             /\ Delays = <<>>

C6_Witness ==
    /\ pc = "adc_start" /\ ~loc.inAll /\ loc.channel = 11
    /\ pre.h.current_channel = 4 /\ hmux.settling_time_us = 65535
    /\ DecodeSel(pins, hmux.config) = 11

\* C7: whenever an ADC conversion is started the enable line is low and
\* is_enabled is true, and when MUX_ReadChannel has returned is_enabled is
\* true.
C7_EnabledBeforeSampling ==
    /\ pc = "adc_start" =>
          hmux.is_enabled /\ EnLevel(pins, hmux.config) = GPIO_PIN_RESET
    /\ \A k \in 1..Len(trace) : IsStart(trace[k]) => trace[k][3] = GPIO_PIN_RESET
    /\ Returned("ReadChannel") => hmux.is_enabled

C7_Witness ==
    /\ Returned("ReadChannel") /\ ~pre.h.is_enabled
    /\ EnLevel(pre.pins, pre.h.config) = GPIO_PIN_SET
    /\ hmux.is_enabled /\ Len(Starts) = 1

\* C8: MUX_ReadAllChannels with a buffer and count in 0..16 returns HAL_OK,
\* writes exactly buffer[0..count-1], buffer[i] being the value read from the
\* i-th conversion, which was started with the select lines encoding i and
\* so is the voltage on input i; current_channel ends at count-1, or is
\* unchanged for count = 0.
C8_ReadAllFillsBuffer ==
    (Returned("ReadAllChannels") /\ ~call.ptrNull /\ call.arg \in 0..16) =>
        /\ call.status = "HAL_OK"
        /\ Len(Starts) = call.arg /\ Len(Gets) = call.arg
        /\ \A k \in 0..MUX_CHANNELS :
              IF k < call.arg
              THEN /\ Starts[k + 1][2] = k
                   /\ data[k] = Gets[k + 1][2]
                   /\ data[k] = Sensor(scene, k)
              ELSE data[k] = Unwritten
        /\ hmux.current_channel =
              IF call.arg >= 1 THEN call.arg - 1 ELSE pre.h.current_channel

C8_Witness ==
    /\ Returned("ReadAllChannels") /\ call.arg = MUX_ACTIVE_CHANNELS
    /\ call.status = "HAL_OK" /\ hmux.current_channel = 13
    /\ data[13] = Sensor(scene, 13) /\ data[14] = Unwritten
    /\ ~pre.h.is_enabled /\ pre.h.current_channel = 15

\* C9: MUX_ReadAllChannels with no buffer or with count > 16 returns
\* HAL_ERROR having started no conversion, written no pin and no buffer
\* element, and changed no handle field.
C9_ReadAllRejects ==
    (Returned("ReadAllChannels") /\ (call.ptrNull \/ call.arg > 16)) =>
        /\ call.status = "HAL_ERROR"
        /\ trace = <<>>
        /\ data = EmptyBuf
        /\ hmux = pre.h
        /\ pins = pre.pins
        /\ ~adc.running

C9_Witness ==
    /\ Returned("ReadAllChannels") /\ call.arg = 17 /\ ~call.ptrNull
    /\ call.status = "HAL_ERROR"
    /\ ~hmux.is_enabled /\ EnLevel(pins, hmux.config) = GPIO_PIN_SET

\* C10 as stated: MUX_ReadChannel with a channel >= 16 leaves every handle
\* field and all five control lines as they were.
C10_AsStated ==
    (Returned("ReadChannel") /\ call.arg >= 16) =>
        /\ hmux = pre.h
        /\ pins = pre.pins

\* C10 amended: MUX_ReadChannel with a channel >= 16 reports no error and
\* leaves current_channel, settling_time_us, the config and the four select
\* lines as they were, with no settle delay; but it still enables the
\* multiplexer (is_enabled true and EN low afterwards, so only a handle that
\* was already enabled is left entirely unchanged) and still converts once,
\* returning the sample of the previously selected channel.
C10_OutOfRangeReadKeepsSelection ==
    (Returned("ReadChannel") /\ call.arg >= 16) =>
        /\ call.status = "none"
        /\ hmux.current_channel = pre.h.current_channel
        /\ hmux.settling_time_us = pre.h.settling_time_us
        /\ hmux.config = pre.h.config
        /\ SelLevels(pins, hmux.config) = SelLevels(pre.pins, hmux.config)
        /\ Delays = <<>>
        /\ hmux.is_enabled /\ EnLevel(pins, hmux.config) = GPIO_PIN_RESET
        /\ pre.h.is_enabled => (hmux = pre.h /\ pins = pre.pins /\ Writes = <<>>)
        /\ Len(Starts) = 1
        /\ call.value = Sensor(scene, pre.h.current_channel)

C10_Witness ==
    /\ Returned("ReadChannel") /\ call.arg = 255
    /\ ~pre.h.is_enabled /\ hmux.is_enabled
    /\ hmux.current_channel = 6 /\ call.value = Sensor(scene, 6)

\* C11: is_enabled goes from true to false, and the enable line from low to
\* high, only in a MUX_Disable or MUX_Init call; MUX_SelectChannel,
\* MUX_SetSettlingTime and MUX_GetCurrentChannel leave is_enabled and the
\* enable line alone; MUX_ReadChannel and a successful MUX_ReadAllChannels
\* end with is_enabled true and the line low.
C11_Step ==
    /\ (hmux.is_enabled /\ ~hmux'.is_enabled) => call'.op \in {"Disable", "Init"}
    /\ (EnLevel(pins, hmux.config) = GPIO_PIN_RESET
          /\ EnLevel(pins', hmux'.config) = GPIO_PIN_SET) => call'.op \in {"Disable", "Init"}
    /\ (pc = "idle" /\ call'.op \in {"SelectChannel", "SetSettlingTime", "GetCurrentChannel"}) =>
          /\ hmux'.is_enabled = hmux.is_enabled
          /\ EnLevel(pins', hmux'.config) = EnLevel(pins, hmux.config)
    /\ (pc' = "idle" /\ (call'.op = "ReadChannel"
                          \/ (call'.op = "ReadAllChannels" /\ call'.status = "HAL_OK"))) =>
          /\ hmux'.is_enabled
          /\ EnLevel(pins', hmux'.config) = GPIO_PIN_RESET

C11_NeverDisabledAutomatically == [][C11_Step]_vars

C11_Witness ==
    /\ Returned("ReadAllChannels") /\ call.status = "HAL_OK" /\ call.arg = 3
    /\ ~pre.h.is_enabled /\ hmux.is_enabled
    /\ EnLevel(pins, hmux.config) = GPIO_PIN_RESET

\* C12: the value MUX_ReadChannel returns is the content of the ADC data
\* register latched by the conversion this call started, a value in
\* 0..4095, unchanged by the uint16_t local it passes through.
C12_Step ==
    /\ (pc = "adc_get" /\ pc' = "adc_stop") =>
          /\ adc.dr \in 0..4095
          /\ adc.dr = Sensor(scene, DecodeSel(pins, hmux.config))
          /\ loc'.value = adc.dr
    /\ (pc = "adc_stop" /\ pc' = "idle" /\ call'.op = "ReadChannel") =>
          /\ call'.value = loc.value
          /\ call'.value = Sensor(scene, DecodeSel(pins, hmux.config))

C12_ReturnsRawSample == [][C12_Step]_vars

C12_Witness ==
    /\ Returned("ReadChannel") /\ call.arg = 5
    /\ hmux.settling_time_us = 0 /\ Delays = << <<"delay", 0, 0>> >>
    /\ SelLevels(pins, hmux.config) = <<1, 0, 1, 0>>
    /\ call.value = Sensor(scene, 5) /\ call.value > 255

\* C13: MUX_Enable right after MUX_Enable, and MUX_Disable right after
\* MUX_Disable, change neither the handle nor any line; MUX_Disable right
\* after MUX_Enable leaves the enable line high and is_enabled false; neither
\* call changes the select lines, current_channel or settling_time_us.
C13_Step ==
    /\ (Returned("Enable") /\ call'.op = "Enable") => (hmux' = hmux /\ pins' = pins)
    /\ (Returned("Disable") /\ call'.op = "Disable") => (hmux' = hmux /\ pins' = pins)
    /\ (Returned("Enable") /\ call'.op = "Disable") =>
          /\ ~hmux'.is_enabled
          /\ EnLevel(pins', hmux'.config) = GPIO_PIN_SET
    /\ (pc = "idle" /\ call'.op \in {"Enable", "Disable"}) =>
          /\ SelLevels(pins', hmux'.config) = SelLevels(pins, hmux.config)
          /\ hmux'.current_channel = hmux.current_channel
          /\ hmux'.settling_time_us = hmux.settling_time_us
          /\ hmux'.config = hmux.config

C13_EnableDisableIdempotent == [][C13_Step]_vars

C13_Witness ==
    /\ Returned("Enable") /\ pre.h.is_enabled /\ hmux.is_enabled
    /\ EnLevel(pre.pins, hmux.config) = GPIO_PIN_RESET
    /\ hmux.current_channel = 9

\* C14: a MUX_SelectChannel with an in-range channel right after a
\* MUX_SelectChannel with the same channel changes neither the select lines
\* nor current_channel (nor anything else of the handle or the pins), and
\* each of the two calls performs one settle delay of settling_time_us.
C14_Step ==
    (/\ Returned("SelectChannel") /\ call.arg \in 0..15
     /\ pc' = "idle" /\ call'.op = "SelectChannel" /\ call'.arg = call.arg) =>
        /\ SelLevels(pins', hmux'.config) = SelLevels(pins, hmux.config)
        /\ hmux'.current_channel = hmux.current_channel
        /\ hmux' = hmux /\ pins' = pins
        /\ Len(Delays) = 1 /\ Delays[1][2] = hmux.settling_time_us
        /\ Len(Delays') = 1 /\ Delays'[1][2] = hmux.settling_time_us
        /\ Len(Writes') = 4

C14_SelectTwiceSameChannel == [][C14_Step]_vars

C14_Witness ==
    /\ Returned("SelectChannel") /\ call.arg = 12
    /\ pre.h.current_channel = 12 /\ DecodeSel(pre.pins, pre.h.config) = 12
    /\ Len(Delays) = 1 /\ hmux.settling_time_us = 65535

\* C15: MUX_Init with an absent handle or an absent config returns HAL_ERROR
\* without writing a pin or changing a field of the handle.
C15_InitRejectsNull ==
    (Returned("Init") /\ (call.hmuxNull \/ call.ptrNull)) =>
        /\ call.status = "HAL_ERROR"
        /\ trace = <<>>
        /\ pins = pre.pins
        /\ hmux = pre.h

C15_Witness ==
    /\ Returned("Init") /\ ~call.hmuxNull /\ call.ptrNull
    /\ call.status = "HAL_ERROR" /\ inited
    /\ hmux.is_enabled /\ hmux.current_channel = 3 /\ hmux.settling_time_us = 0
    /\ hmux.config # Cfg(call.arg)

IsAdcOp(e) == e[1] \in {"start", "poll", "get", "stop"}
AdcOps == SelectSeq(trace, IsAdcOp)
Cycle == <<"start", "poll", "get", "stop">>

\* C16: the ADC operations of a call always form whole cycles start, poll,
\* get, stop in that order, one after another; the ADC runs exactly between a
\* start and its stop; MUX_ReadChannel returns after exactly one cycle and a
\* successful MUX_ReadAllChannels after exactly count cycles, with the ADC
\* stopped; and in MUX_ReadAllChannels every start comes right after that
\* channel's own four select-line writes and settle delay.
C16_AdcCycles ==
    /\ \A k \in 1..Len(AdcOps) : AdcOps[k][1] = Cycle[((k - 1) % 4) + 1]
    /\ adc.running <=> (Len(AdcOps) % 4 # 0)
    /\ adc.running <=> pc \in {"adc_poll", "adc_get", "adc_stop"}
    /\ Returned("ReadChannel") => Len(AdcOps) = 4
    /\ (Returned("ReadAllChannels") /\ call.status = "HAL_OK") =>
          /\ Len(AdcOps) = 4 * call.arg
          /\ Len(Delays) = call.arg
          /\ Len(Writes) \in {4 * call.arg, 4 * call.arg + 1}
    /\ call.op = "ReadAllChannels" =>
          \A k \in 1..Len(trace) : IsStart(trace[k]) =>
              /\ k >= 6
              /\ IsDelay(trace[k - 1])
              /\ \A j \in 2..5 : IsWrite(trace[k - j])
              /\ trace[k - 5][2] = hmux.config.s0 /\ trace[k - 4][2] = hmux.config.s1
              /\ trace[k - 3][2] = hmux.config.s2 /\ trace[k - 2][2] = hmux.config.s3
              /\ trace[k][2] = trace[k - 5][3] + 2 * trace[k - 4][3]
                                + 4 * trace[k - 3][3] + 8 * trace[k - 2][3]
              /\ (k > 6 => (trace[k - 6][1] = "stop" \/ k = 7))

C16_Witness ==
    /\ Returned("ReadAllChannels") /\ call.status = "HAL_OK" /\ call.arg = 16
    /\ Len(AdcOps) = 64 /\ ~adc.running /\ Len(Delays) = 16

\* C18: every settle delay of a call is made with the handle's
\* settling_time_us and runs ((SystemCoreClock / 1000000) * us) / 3 loop
\* iterations (integer division), none for us = 0; settling_time_us changes
\* only in MUX_SetSettlingTime (to its argument) and in a successful MUX_Init
\* (to 10); MUX_SetSettlingTime changes nothing else and writes no pin.
C18_Step ==
    /\ hmux'.settling_time_us # hmux.settling_time_us =>
          \/ call'.op = "SetSettlingTime" /\ hmux'.settling_time_us = call'.arg
          \/ call'.op = "Init" /\ call'.status = "HAL_OK" /\ hmux'.settling_time_us = 10
    /\ (pc = "idle" /\ call'.op = "SetSettlingTime") =>
          /\ hmux' = [hmux EXCEPT !.settling_time_us = call'.arg]
          /\ pins' = pins
          /\ trace' = <<>>
    /\ \A k \in 1..Len(trace') : IsDelay(trace'[k]) =>
          /\ trace'[k][2] = hmux'.settling_time_us
          /\ 3 * trace'[k][3] <= (SystemCoreClock \div 1000000) * trace'[k][2]
          /\ (SystemCoreClock \div 1000000) * trace'[k][2] < 3 * trace'[k][3] + 3
          /\ trace'[k][2] = 0 => trace'[k][3] = 0
          /\ trace'[k][3] < 1073741824

C18_SettleDelay == [][C18_Step]_vars

C18_Witness ==
    /\ Returned("SelectChannel") /\ call.arg = 2
    /\ hmux.settling_time_us = 10 /\ Delays = << <<"delay", 10, 240>> >>

\* The processor keeps executing a call in progress, and the ADC finishes
\* every conversion it is started on.  Nothing obliges the application to
\* make a call.
Running ==
    \/ ReadChannel_AdcStart
    \/ ReadChannel_AdcPoll
    \/ ReadChannel_AdcGetValue
    \/ ReadChannel_AdcStop_Return
    \/ ReadChannel_AdcStop_Loop

\* The same calls as Next with fewer argument values, so that the temporal
\* check stays small: one in-range and one out-of-range channel, and the
\* counts 0, 1, 16 and one oversized count.
LiveNext ==
    \/ \E hn \in BOOLEAN, cn \in BOOLEAN, id \in ConfigIds : MUX_Init_Call(hn, cn, id)
    \/ MUX_SetSettlingTime_Call(0)
    \/ MUX_Enable_Call
    \/ MUX_Disable_Call
    \/ MUX_SelectChannel_Call(3)
    \/ MUX_GetCurrentChannel_Call
    \/ \E ch \in {5, MaxChannelArg} : MUX_ReadChannel_Call(ch, 1)
    \/ \E dn \in BOOLEAN, n \in {0, 1, MUX_CHANNELS, MaxCount} : MUX_ReadAllChannels_Call(dn, n, 1)
    \/ ReadChannel_AdcStart
    \/ ADC_ConversionComplete
    \/ ReadChannel_AdcPoll
    \/ ReadChannel_AdcGetValue
    \/ ReadChannel_AdcStop_Return
    \/ ReadChannel_AdcStop_Loop

LiveSpec == Init /\ [][LiveNext]_vars /\ WF_vars(Running) /\ WF_vars(ADC_ConversionComplete)

\* C17: with an ADC that completes every conversion, every MUX_ReadChannel
\* and MUX_ReadAllChannels call in progress eventually returns; and the call
\* leaves the poll only once the conversion-complete flag is set, going on to
\* read the value: while the flag stays clear the call stays in the poll, so
\* no value is read, the ADC is not stopped and no further channel is
\* selected; the flag is set only by the ADC completing a started conversion.
C17_Step ==
    /\ (pc = "adc_poll" /\ ~adc.eoc) =>
          /\ pc' = "adc_poll"
          /\ hmux' = hmux /\ pins' = pins /\ trace' = trace /\ data' = data
          /\ adc'.running
    /\ (pc = "adc_poll" /\ pc' # "adc_poll") => (adc.eoc /\ pc' = "adc_get")
    /\ (~adc.eoc /\ adc'.eoc) => (adc.running /\ pc \in {"adc_poll", "adc_stop"})

C17_PollBlocksUntilComplete ==
    /\ (pc # "idle") ~> (pc = "idle")
    /\ [][C17_Step]_vars

C17_Witness ==
    /\ pc = "adc_poll" /\ ~adc.eoc /\ adc.running
    /\ loc.inAll /\ loc.i = 15 /\ call.arg = 16

====
